---- MODULE Spec2Model ----
(***************************************************************************)
(* Model of backend/app.py: a Flask backend over three MongoDB collections *)
(* (students, courses, attendance).  Every request handler is split at its *)
(* store operations (find_one, insert_one, update_one, find): one action   *)
(* per store operation, together with the local code that precedes it, so  *)
(* that concurrently handled requests interleave exactly at the store.     *)
(***************************************************************************)
EXTENDS Integers, Sequences, FiniteSets, TLC

\* ------------------------------------------------------------------ bounds
MaxSeqReqs == 2     \* requests accepted in one behaviour, handled one at a time
MaxBatch == 2       \* entries in the records array of one POST /attendance

\* Request-handling threads of the HTTP server.
Procs == {"t1", "t2"}

\* Requests accepted in one behaviour when handled concurrently: as many as
\* there are threads, so that all of them can be in flight together.
MaxReqs == Cardinality(Procs)

\* ------------------------------------------------------- JSON values, ids
\* A key that the JSON object does not carry.
Absent == "<absent>"

\* `field in data and data[field]`: the key is present and its value truthy.
Truthy(v) == v # Absent /\ v # ""

\* Identifier strings.  form "hex": 24 lowercase hex digits spelling
\* ObjectId n; "HEX": the same digits in upper case; "bad": any other
\* string (wrong length, non-hex); "absent": the key is missing or its
\* value is empty.
IdStr(form, n) == [form |-> form, n |-> n]
AbsentId == IdStr("absent", 0)
BadId == IdStr("bad", 0)

\* bson ObjectId(id_string) succeeds exactly on 24 hex digits, either case.
is_valid_objectId(s) == s.form \in {"hex", "HEX"}

\* ObjectId(id_string): the parsed identifier (case-insensitive).
ObjectId(s) == s.n

\* str(ObjectId): always the lowercase rendering.
StrOfOid(n) == IdStr("hex", n)

\* Date strings.  form "padded": YYYY-MM-DD with two-digit month and day;
\* "short": the same day written without zero padding (strptime accepts
\* it); "bad": anything strptime rejects; "absent": the key is missing or
\* its value is empty.
DateStr(form, day) == [form |-> form, day |-> day]
AbsentDate == DateStr("absent", 0)
BadDate == DateStr("bad", 0)

\* datetime values are counted in hours since the first modelled midnight.
HoursPerDay == 24

\* datetime.strptime(s, '%Y-%m-%d') raises ValueError or yields midnight.
strptime_ok(s) == s.form \in {"padded", "short"}
strptime(s) == s.day * HoursPerDay

\* start + timedelta(days=1)
PlusOneDay(t) == t + HoursPerDay

\* datetime.isoformat()
isoformat(t) == [iso |-> t]

\* ---------------------------------------------------------------- state
VARIABLES
  students,     \* students_collection: set of documents
  courses,      \* courses_collection
  attendance,   \* attendance_collection
  nextOid,      \* next ObjectId the store generates on insert
  pc,           \* per handler thread: position in its handler
  req,          \* per handler thread: the request being handled
  idx,          \* mark_attendance: 1-based position of `rec` in data['records']
  processed,    \* mark_attendance: the `processed` list
  resp,         \* per handler thread: the response returned
  nreq,         \* requests accepted so far
  snap,         \* history: the three collections when the running request began
  hist          \* history: the last completed request, if a successful mark

store == <<students, courses, attendance>>
vars == <<students, courses, attendance, nextOid, pc, req, idx, processed,
          resp, nreq, snap, hist>>

NoReq == [op |-> "none"]
NoResp == [code |-> 0, error |-> "", body |-> {}]
NoSnap == <<>>
NoHist == [valid |-> FALSE, again |-> FALSE, data |-> <<>>, att |-> {}]

Error(code, msg) == [code |-> code, error |-> msg, body |-> {}]
Ok(code, body) == [code |-> code, error |-> "", body |-> body]

\* ------------------------------------------------------------- the store
\* collection.find_one({field: value}) is truthy: such a document exists.
FindOne(coll, field, value) == \E d \in coll : d[field] = value

\* Mutant: the write replaces the collection's contents by the document.
InsertOneReplacing(coll, doc) == {doc}

\* collection.insert_one(doc): the store assigns _id and adds the document.
InsertOne(coll, doc) == coll \cup {doc}

\* ------------------------------------------------------- request inputs
StudentIdValues == {"S1", "S2"}
EmailValues == {"a@x", "b@x"}

StudentData(sid, fn, ln, em) ==
  [student_id |-> sid, first_name |-> fn, last_name |-> ln, email |-> em]

\* Bodies of POST /students: every combination of the unique fields with
\* the names present, the empty object, and one body per defective field.
StudentPayloads ==
  {StudentData(sid, "Ann", "Lee", em) : sid \in StudentIdValues, em \in EmailValues}
    \cup {StudentData(Absent, Absent, Absent, Absent),
          StudentData(Absent, "Ann", "Lee", "a@x"),
          StudentData("S1", "", "Lee", "a@x"),
          StudentData("S1", "Ann", Absent, "a@x"),
          StudentData("S1", "Ann", "Lee", "")}

CourseCodeValues == {"CS1", "CS2"}

CourseData(code, name) == [course_code |-> code, course_name |-> name]

CoursePayloads ==
  {CourseData(code, "Algebra") : code \in CourseCodeValues}
    \cup {CourseData(Absent, Absent),
          CourseData(Absent, "Algebra"),
          CourseData("CS1", "")}

\* Calendar days named by requests; consecutive, so that the day after one
\* is the other.
DayValues == {0, 1}

DateInputs ==
  {DateStr("padded", d) : d \in DayValues} \cup {DateStr("short", 0)}

\* Identifiers of the documents that exist.  A request names one of them,
\* or nextOid: a well-formed identifier of no document (the store hands it
\* out next).
StudentOids == {d._id : d \in students}
CourseOids == {d._id : d \in courses}

RecordEntry(sid, status, notes) ==
  [student_id |-> sid, status |-> status, notes |-> notes]

\* What an entry says of a student: status, and notes or none.
MarkValues == {<<"present", "late">>, <<"absent", Absent>>}

\* Entries of data['records'] that name an existing student.
LiveEntries ==
  {RecordEntry(StrOfOid(n), m[1], m[2]) : n \in StudentOids, m \in MarkValues}

\* One entry per way an entry can be rejected.
DefectEntries ==
  {RecordEntry(AbsentId, "present", Absent),
   RecordEntry(BadId, "present", Absent),
   RecordEntry(StrOfOid(nextOid), Absent, "late"),
   RecordEntry(StrOfOid(nextOid), "present", Absent)}

\* Records arrays of n entries.  After an entry that is rejected the array
\* goes on with entries naming existing students only: the loop never
\* reads past the first rejected entry.
RECURSIVE BatchesOfLen(_)
BatchesOfLen(n) ==
  IF n = 1
    THEN {<<e>> : e \in LiveEntries \cup DefectEntries}
    ELSE {<<l>> \o b : l \in LiveEntries, b \in BatchesOfLen(n - 1)}
           \cup {<<d>> \o b : d \in DefectEntries,
                               b \in {c \in BatchesOfLen(n - 1) :
                                        \A i \in 1..Len(c) : c[i] \in LiveEntries}}

BatchInputs == UNION {BatchesOfLen(n) : n \in 1..MaxBatch}

MarkData(cid, date, records) ==
  [course_id |-> cid, date |-> date, records |-> records]

OneEntry == <<RecordEntry(StrOfOid(nextOid), "present", Absent)>>

\* Bodies of POST /attendance.  Those naming an existing course on the
\* first day carry every records array; those with another day or another
\* spelling of the day or of the course id carry one entry; the empty
\* object and the bodies with one defective top-level field carry one.  An
\* empty `records` stands for both a missing key and an empty array (both
\* falsy).
MarkPayloads ==
  {MarkData(StrOfOid(c), DateStr("padded", 0), b) :
     c \in CourseOids, b \in BatchInputs}
    \cup {MarkData(StrOfOid(c), d, <<e>>) :
            c \in CourseOids, d \in DateInputs, e \in LiveEntries}
    \cup {MarkData(IdStr("HEX", c), DateStr("padded", 0), <<e>>) :
            c \in CourseOids, e \in LiveEntries}
    \cup {MarkData(StrOfOid(nextOid), DateStr("padded", 0), <<e>>) :
            e \in LiveEntries \cup DefectEntries}
    \cup {MarkData(cid, DateStr("padded", 0), OneEntry) : cid \in {AbsentId, BadId}}
    \cup {MarkData(StrOfOid(nextOid), d, OneEntry) : d \in {AbsentDate, BadDate}}
    \cup {MarkData(AbsentId, AbsentDate, <<>>),
          MarkData(StrOfOid(nextOid), DateStr("padded", 0), <<>>)}

\* Path parameters of GET /attendance/<course_id>/<date_str>.
Query(cid, d) == [course_id |-> cid, date_str |-> d]

QueryInputs ==
  {Query(StrOfOid(c), d) : c \in CourseOids, d \in DateInputs \cup {BadDate}}
    \cup {Query(cid, DateStr("padded", 0)) :
            cid \in {IdStr("HEX", c) : c \in CourseOids}
                     \cup {StrOfOid(nextOid), BadId}}

\* ------------------------------------------------------ handler plumbing
\* The handler of thread p returns response r.
Finish(p, r) ==
  /\ pc' = [pc EXCEPT ![p] = "done"]
  /\ resp' = [resp EXCEPT ![p] = r]

\* The handler of thread p moves on to its next store operation.
Goto(p, label) ==
  /\ pc' = [pc EXCEPT ![p] = label]
  /\ UNCHANGED resp

\* Thread p waits for a request.
Idle(p) == pc[p] = "idle"

\* Thread p takes request r.
Accept(p, r) ==
  /\ nreq' = nreq + 1
  /\ req' = [req EXCEPT ![p] = r]

\* The response has been sent; thread p waits for its next request.
Return(p) ==
  /\ pc[p] = "done"
  /\ pc' = [pc EXCEPT ![p] = "idle"]
  /\ req' = [req EXCEPT ![p] = NoReq]
  /\ resp' = [resp EXCEPT ![p] = NoResp]
  /\ idx' = [idx EXCEPT ![p] = 0]
  /\ processed' = [processed EXCEPT ![p] = <<>>]
  /\ UNCHANGED <<students, courses, attendance, nextOid, nreq>>

\* `all(field in data and data[field] for field in required_fields)`
AllTruthy(data, fields) == \A f \in fields : Truthy(data[f])

\* `not data`: the JSON object is empty (no key present).
NoKeys(data, fields) == \A f \in fields : data[f] = Absent

\* str(doc['_id']) in a response body.
WithStrId(doc) == [doc EXCEPT !._id = StrOfOid(doc._id)]

\* ------------------------------------------------------- student routes
StudentFields == {"student_id", "first_name", "last_name", "email"}

\* GET /students
get_students(p) ==
  /\ Idle(p)
  /\ Accept(p, [op |-> "get_students"])
  /\ Finish(p, Ok(200, {WithStrId(s) : s \in students}))
  /\ UNCHANGED <<students, courses, attendance, nextOid, idx, processed>>

\* POST /students: body parsing and the required-field check.
add_student_validate(p) ==
  /\ Idle(p)
  /\ \E data \in StudentPayloads :
      /\ Accept(p, [op |-> "add_student", data |-> data])
      /\ IF NoKeys(data, StudentFields)
           THEN Finish(p, Error(400, "No data provided"))
           ELSE IF ~AllTruthy(data, StudentFields)
             THEN Finish(p, Error(400, "Missing required fields"))
             ELSE Goto(p, "as_find_id")
      /\ UNCHANGED <<students, courses, attendance, nextOid, idx, processed>>

\* POST /students: find_one({"student_id": ...})
add_student_find_id(p) ==
  /\ pc[p] = "as_find_id"
  /\ IF FindOne(students, "student_id", req[p].data.student_id)
       THEN Finish(p, Error(409, "Student with this ID already exists"))
       ELSE Goto(p, "as_find_email")
  /\ UNCHANGED <<students, courses, attendance, nextOid, req, idx, processed, nreq>>

\* Mutant: the email lookup is left out.
add_student_skip_email(p) ==
  /\ pc[p] = "as_find_email"
  /\ Goto(p, "as_insert")
  /\ UNCHANGED <<students, courses, attendance, nextOid, req, idx, processed, nreq>>

\* POST /students: find_one({"email": ...})
add_student_find_email(p) ==
  /\ pc[p] = "as_find_email"
  /\ IF FindOne(students, "email", req[p].data.email)
       THEN Finish(p, Error(409, "Student with this email already exists"))
       ELSE Goto(p, "as_insert")
  /\ UNCHANGED <<students, courses, attendance, nextOid, req, idx, processed, nreq>>

StudentDoc(id, data) ==
  [_id |-> id, student_id |-> data.student_id, first_name |-> data.first_name,
   last_name |-> data.last_name, email |-> data.email]

\* Mutant: the insert enforces uniqueness itself (a unique index), so a
\* document that lost the race is refused.
add_student_insert_unique(p) ==
  /\ pc[p] = "as_insert"
  /\ IF FindOne(students, "student_id", req[p].data.student_id)
          \/ FindOne(students, "email", req[p].data.email)
       THEN /\ Finish(p, Error(409, "duplicate key"))
            /\ UNCHANGED <<students, nextOid>>
       ELSE /\ students' = InsertOne(students, StudentDoc(nextOid, req[p].data))
            /\ nextOid' = nextOid + 1
            /\ Finish(p, Ok(201, {WithStrId(StudentDoc(nextOid, req[p].data))}))
  /\ UNCHANGED <<courses, attendance, req, idx, processed, nreq>>

\* POST /students: insert_one(data) and the 201 response.
add_student_insert(p) ==
  /\ pc[p] = "as_insert"
  /\ students' = InsertOne(students, StudentDoc(nextOid, req[p].data))
  /\ nextOid' = nextOid + 1
  /\ Finish(p, Ok(201, {WithStrId(StudentDoc(nextOid, req[p].data))}))
  /\ UNCHANGED <<courses, attendance, req, idx, processed, nreq>>

\* -------------------------------------------------------- course routes
CourseFields == {"course_code", "course_name"}

\* GET /courses
get_courses(p) ==
  /\ Idle(p)
  /\ Accept(p, [op |-> "get_courses"])
  /\ Finish(p, Ok(200, {WithStrId(c) : c \in courses}))
  /\ UNCHANGED <<students, courses, attendance, nextOid, idx, processed>>

\* POST /courses: body parsing and the required-field check.
add_course_validate(p) ==
  /\ Idle(p)
  /\ \E data \in CoursePayloads :
      /\ Accept(p, [op |-> "add_course", data |-> data])
      /\ IF NoKeys(data, CourseFields)
           THEN Finish(p, Error(400, "No data provided"))
           ELSE IF ~AllTruthy(data, CourseFields)
             THEN Finish(p, Error(400, "Missing required fields"))
             ELSE Goto(p, "ac_find_code")
      /\ UNCHANGED <<students, courses, attendance, nextOid, idx, processed>>

\* Mutant: the document is inserted before the lookup's answer is acted on.
add_course_insert_then_check(p) ==
  /\ pc[p] = "ac_find_code"
  /\ IF FindOne(courses, "course_code", req[p].data.course_code)
       THEN /\ courses' = InsertOne(courses, [_id |-> nextOid,
                                    course_code |-> req[p].data.course_code,
                                    course_name |-> req[p].data.course_name])
            /\ nextOid' = nextOid + 1
            /\ Finish(p, Error(409, "Course with this code already exists"))
       ELSE Goto(p, "ac_insert") /\ UNCHANGED <<courses, nextOid>>
  /\ UNCHANGED <<students, attendance, req, idx, processed, nreq>>

\* POST /courses: find_one({"course_code": ...})
add_course_find_code(p) ==
  /\ pc[p] = "ac_find_code"
  /\ IF FindOne(courses, "course_code", req[p].data.course_code)
       THEN Finish(p, Error(409, "Course with this code already exists"))
       ELSE Goto(p, "ac_insert")
  /\ UNCHANGED <<students, courses, attendance, nextOid, req, idx, processed, nreq>>

CourseDoc(id, data) ==
  [_id |-> id, course_code |-> data.course_code, course_name |-> data.course_name]

\* POST /courses: insert_one(data) and the 201 response.
add_course_insert(p) ==
  /\ pc[p] = "ac_insert"
  /\ courses' = InsertOne(courses, CourseDoc(nextOid, req[p].data))
  /\ nextOid' = nextOid + 1
  /\ Finish(p, Ok(201, {WithStrId(CourseDoc(nextOid, req[p].data))}))
  /\ UNCHANGED <<students, attendance, req, idx, processed, nreq>>

\* ---------------------------------------------------- attendance routes
\* Rendering of an attendance document in a response body.
AttendanceOut(r) ==
  [_id |-> StrOfOid(r._id), student_id |-> StrOfOid(r.student_id),
   course_id |-> StrOfOid(r.course_id), date |-> isoformat(r.date),
   status |-> r.status, notes |-> r.notes]

\* GET /attendance
get_all_attendance(p) ==
  /\ Idle(p)
  /\ Accept(p, [op |-> "get_all_attendance"])
  /\ Finish(p, Ok(200, {AttendanceOut(r) : r \in attendance}))
  /\ UNCHANGED <<students, courses, attendance, nextOid, idx, processed>>

\* Mutant: the upper end of the range is included ($lte).
FindByCourseAndClosedRange(coll, c, start, end) ==
  {r \in coll : r.course_id = c /\ r.date >= start /\ r.date <= end}

\* attendance_collection.find({"course_id": c, "date": {"$gte": start, "$lt": end}})
FindByCourseAndRange(coll, c, start, end) ==
  {r \in coll : r.course_id = c /\ r.date >= start /\ r.date < end}

\* GET /attendance/<course_id>/<date_str>
get_attendance_by_course_and_date(p) ==
  /\ Idle(p)
  /\ \E q \in QueryInputs :
      /\ Accept(p, [op |-> "get_attendance_by_course_and_date", data |-> q])
      /\ IF ~is_valid_objectId(q.course_id)
           THEN Finish(p, Error(400, "Invalid course_id format"))
           ELSE IF ~strptime_ok(q.date_str)
             THEN Finish(p, Error(400, "Invalid date format. Use YYYY-MM-DD"))
             ELSE LET start == strptime(q.date_str)
                      end == PlusOneDay(start)
                      found == FindByCourseAndRange(attendance, ObjectId(q.course_id),
                                                    start, end)
                  IN  Finish(p, Ok(200, {AttendanceOut(r) : r \in found}))
      /\ UNCHANGED <<students, courses, attendance, nextOid, idx, processed>>

\* POST /attendance: body parsing and the checks before the loop.
mark_attendance_validate(p) ==
  /\ Idle(p)
  /\ \E data \in MarkPayloads :
      /\ Accept(p, [op |-> "mark_attendance", data |-> data])
      /\ IF data.course_id = AbsentId /\ data.date = AbsentDate /\ data.records = <<>>
           THEN Finish(p, Error(400, "No data provided")) /\ UNCHANGED idx
           ELSE IF data.course_id = AbsentId \/ data.date = AbsentDate
                     \/ data.records = <<>>
             THEN Finish(p, Error(400, "Missing required fields")) /\ UNCHANGED idx
             ELSE IF ~is_valid_objectId(data.course_id)
               THEN Finish(p, Error(400, "Invalid course_id")) /\ UNCHANGED idx
               ELSE IF ~strptime_ok(data.date)
                 THEN Finish(p, Error(400, "Invalid date format. Use YYYY-MM-DD"))
                      /\ UNCHANGED idx
                 ELSE Goto(p, "mk_find_student") /\ idx' = [idx EXCEPT ![p] = 1]
      /\ UNCHANGED <<students, courses, attendance, nextOid, processed>>

\* The loop variable `rec`.
Rec(p) == req[p].data.records[idx[p]]

\* Mutant: an entry naming no student is skipped (`continue`) instead of
\* ending the request.
mark_attendance_skip_unknown(p) ==
  /\ pc[p] = "mk_find_student"
  /\ IF ~(Rec(p).student_id # AbsentId /\ Truthy(Rec(p).status))
       THEN Finish(p, Error(400, "Each record must include student_id and status"))
            /\ UNCHANGED idx
       ELSE IF ~is_valid_objectId(Rec(p).student_id)
         THEN Finish(p, Error(400, "Invalid student_id")) /\ UNCHANGED idx
         ELSE IF ~FindOne(students, "_id", ObjectId(Rec(p).student_id))
           THEN /\ idx' = [idx EXCEPT ![p] = @ + 1]
                /\ IF idx[p] = Len(req[p].data.records)
                     THEN Finish(p, Ok(200, {}))
                     ELSE Goto(p, "mk_find_student")
           ELSE Goto(p, "mk_find_course") /\ UNCHANGED idx
  /\ UNCHANGED <<students, courses, attendance, nextOid, req, processed, nreq>>

\* POST /attendance, loop body: the entry's field checks, then
\* students_collection.find_one({"_id": ObjectId(student_id)}).
mark_attendance_find_student(p) ==
  /\ pc[p] = "mk_find_student"
  /\ IF ~(Rec(p).student_id # AbsentId /\ Truthy(Rec(p).status))
       THEN Finish(p, Error(400, "Each record must include student_id and status"))
       ELSE IF ~is_valid_objectId(Rec(p).student_id)
         THEN Finish(p, Error(400, "Invalid student_id"))
         ELSE IF ~FindOne(students, "_id", ObjectId(Rec(p).student_id))
           THEN Finish(p, Error(404, "Student not found"))
           ELSE Goto(p, "mk_find_course")
  /\ UNCHANGED <<students, courses, attendance, nextOid, req, idx, processed, nreq>>

\* Mutant: the course lookup is left out.
mark_attendance_skip_course(p) ==
  /\ pc[p] = "mk_find_course"
  /\ Goto(p, "mk_upsert")
  /\ UNCHANGED <<students, courses, attendance, nextOid, req, idx, processed, nreq>>

\* POST /attendance, loop body:
\* courses_collection.find_one({"_id": ObjectId(course_id)}).
mark_attendance_find_course(p) ==
  /\ pc[p] = "mk_find_course"
  /\ IF ~FindOne(courses, "_id", ObjectId(req[p].data.course_id))
       THEN Finish(p, Error(404, "Course not found"))
       ELSE Goto(p, "mk_upsert")
  /\ UNCHANGED <<students, courses, attendance, nextOid, req, idx, processed, nreq>>

\* The filter of update_one: the (student, course, date) triple.
Triple(s, c, d) == [student_id |-> s, course_id |-> c, date |-> d]
KeyOf(r) == Triple(r.student_id, r.course_id, r.date)
Matching(coll, key) == {r \in coll : KeyOf(r) = key}

\* rec.get("notes", "")
NotesOf(rec) == IF rec.notes = Absent THEN "" ELSE rec.notes

\* Mutant: the write is a plain insert_one, with no lookup of the triple.
UpdateOneAlwaysInsert(coll, key, status, notes, newId) ==
  coll \cup {[_id |-> newId, student_id |-> key.student_id,
               course_id |-> key.course_id, date |-> key.date,
               status |-> status, notes |-> notes]}

\* Mutant: an existing document is left as it is ($setOnInsert).
UpdateOneSetOnInsert(coll, key, status, notes, newId) ==
  IF Matching(coll, key) # {}
    THEN coll
    ELSE coll \cup {[_id |-> newId, student_id |-> key.student_id,
                      course_id |-> key.course_id, date |-> key.date,
                      status |-> status, notes |-> notes]}

\* update_one(key, {"$set": {status, notes}}, upsert=True): one matching
\* document is updated in place; with none, a new one is inserted under a
\* fresh _id.
UpdateOneUpsert(coll, key, status, notes, newId) ==
  IF Matching(coll, key) # {}
    THEN LET d == CHOOSE r \in Matching(coll, key) : TRUE
         IN  (coll \ {d}) \cup {[d EXCEPT !.status = status, !.notes = notes]}
    ELSE coll \cup {[_id |-> newId, student_id |-> key.student_id,
                      course_id |-> key.course_id, date |-> key.date,
                      status |-> status, notes |-> notes]}

\* The triple the current loop iteration writes.
RecKey(p) ==
  Triple(ObjectId(Rec(p).student_id), ObjectId(req[p].data.course_id),
         strptime(req[p].data.date))

\* The echo appended to `processed`.
Echo(p) ==
  [student_id |-> Rec(p).student_id, course_id |-> req[p].data.course_id,
   date |-> isoformat(strptime(req[p].data.date)),
   status |-> Rec(p).status, notes |-> NotesOf(Rec(p))]

\* POST /attendance, loop body: the upsert, processed.append, and either
\* the next iteration or the 200 response.
mark_attendance_upsert(p) ==
  /\ pc[p] = "mk_upsert"
  /\ attendance' = UpdateOneUpsert(attendance, RecKey(p), Rec(p).status,
                                   NotesOf(Rec(p)), nextOid)
  /\ nextOid' = IF Matching(attendance, RecKey(p)) = {} THEN nextOid + 1 ELSE nextOid
  /\ processed' = [processed EXCEPT ![p] = Append(@, Echo(p))]
  /\ idx' = [idx EXCEPT ![p] = @ + 1]
  /\ IF idx[p] = Len(req[p].data.records)
       THEN Finish(p, Ok(200, {}))
       ELSE Goto(p, "mk_find_student")
  /\ UNCHANGED <<students, courses, req, nreq>>

\* ------------------------------------------------------- specifications
\* The database outlives the process: at startup the store is empty, or
\* holds what earlier runs left.  Each seed is what a run of requests from
\* the empty store leaves: POST /students and POST /courses, and then
\* POST /attendance marking the student "present" on the second day.
Seeds ==
  {[students |-> {}, courses |-> {}, attendance |-> {}, nextOid |-> 1],
   [students |-> {StudentDoc(1, StudentData("S1", "Ann", "Lee", "a@x"))},
    courses |-> {CourseDoc(2, CourseData("CS1", "Algebra"))},
    attendance |-> {},
    nextOid |-> 3],
   [students |-> {StudentDoc(1, StudentData("S1", "Ann", "Lee", "a@x"))},
    courses |-> {CourseDoc(2, CourseData("CS1", "Algebra"))},
    attendance |-> UpdateOneUpsert({}, Triple(1, 2, strptime(DateStr("padded", 1))),
                                   "present", "late", 3),
    nextOid |-> 4]}

Init ==
  /\ \E seed \in Seeds :
       /\ students = seed.students
       /\ courses = seed.courses
       /\ attendance = seed.attendance
       /\ nextOid = seed.nextOid
  /\ pc = [p \in Procs |-> "idle"]
  /\ req = [p \in Procs |-> NoReq]
  /\ idx = [p \in Procs |-> 0]
  /\ processed = [p \in Procs |-> <<>>]
  /\ resp = [p \in Procs |-> NoResp]
  /\ nreq = 0
  /\ snap = NoSnap
  /\ hist = NoHist

\* A thread accepts a request only while the behaviour's budget lasts.
Budget(p, n) == Idle(p) => nreq < n

\* Step A of thread p while other threads may be in the middle of their own
\* handlers: the threads interleave at store operations.
Concurrent(p, A) == Budget(p, MaxReqs) /\ A /\ UNCHANGED <<snap, hist>>

Next ==
  \E p \in Procs :
    \/ Concurrent(p, get_students(p))
    \/ Concurrent(p, add_student_validate(p))
    \/ Concurrent(p, add_student_find_id(p))
    \/ Concurrent(p, add_student_find_email(p))
    \/ Concurrent(p, add_student_insert(p))
    \/ Concurrent(p, get_courses(p))
    \/ Concurrent(p, add_course_validate(p))
    \/ Concurrent(p, add_course_find_code(p))
    \/ Concurrent(p, add_course_insert(p))
    \/ Concurrent(p, get_all_attendance(p))
    \/ Concurrent(p, get_attendance_by_course_and_date(p))
    \/ Concurrent(p, mark_attendance_validate(p))
    \/ Concurrent(p, mark_attendance_find_student(p))
    \/ Concurrent(p, mark_attendance_find_course(p))
    \/ Concurrent(p, mark_attendance_upsert(p))
    \/ Concurrent(p, Return(p))

Spec == Init /\ [][Next]_vars

\* Thread p is the only one handling a request.
OthersIdle(p) == \A q \in Procs \ {p} : Idle(q)

\* The step of thread p completes its request.
Completes(p) == pc[p] # "done" /\ pc'[p] = "done"

\* History kept beside the program when requests are handled one at a
\* time: the collections as the running request found them; and, while the
\* request that follows a successful POST /attendance carries the same body,
\* that body with the attendance collection the first run left (`again`:
\* the recorded run was itself such a repetition).
History(p) ==
  /\ snap' = IF Idle(p) THEN store
             ELSE IF pc'[p] = "idle" THEN NoSnap ELSE snap
  /\ hist' = IF Completes(p)
               THEN IF req'[p].op = "mark_attendance" /\ resp'[p].code = 200
                      THEN [valid |-> TRUE, again |-> hist.valid,
                            data |-> req'[p].data, att |-> attendance']
                      ELSE NoHist
               ELSE IF Idle(p)
                 THEN IF req'[p].op = "mark_attendance" /\ req'[p].data = hist.data
                        THEN hist ELSE NoHist
                 ELSE hist

\* Step A of thread p when requests are handled one at a time: a thread
\* takes a step only while no other thread is handling a request.
OneAtATime(p, A) ==
  Budget(p, MaxSeqReqs) /\ OthersIdle(p) /\ A /\ History(p)

SeqNext ==
  \E p \in Procs :
    \/ OneAtATime(p, get_students(p))
    \/ OneAtATime(p, add_student_validate(p))
    \/ OneAtATime(p, add_student_find_id(p))
    \/ OneAtATime(p, add_student_find_email(p))
    \/ OneAtATime(p, add_student_insert(p))
    \/ OneAtATime(p, get_courses(p))
    \/ OneAtATime(p, add_course_validate(p))
    \/ OneAtATime(p, add_course_find_code(p))
    \/ OneAtATime(p, add_course_insert(p))
    \/ OneAtATime(p, get_all_attendance(p))
    \/ OneAtATime(p, get_attendance_by_course_and_date(p))
    \/ OneAtATime(p, mark_attendance_validate(p))
    \/ OneAtATime(p, mark_attendance_find_student(p))
    \/ OneAtATime(p, mark_attendance_find_course(p))
    \/ OneAtATime(p, mark_attendance_upsert(p))
    \/ OneAtATime(p, Return(p))

SeqSpec == Init /\ [][SeqNext]_vars

\* ================================================================ claims
\* Thread p has finished handling a request of kind op.
Done(p, op) == pc[p] = "done" /\ req[p].op = op

\* C1: in every state reachable by any interleaving of POST /attendance
\* requests (each upsert one atomic step), the attendance collection holds
\* at most one record per (student, course, date) triple.
C1_OneRecordPerTriple ==
  \A r1 \in attendance : \A r2 \in attendance : KeyOf(r1) = KeyOf(r2) => r1 = r2

\* Two threads have both completed a POST /attendance that marked one and
\* the same triple.
C1_Witness ==
  \E p \in Procs : \E q \in Procs \ {p} :
    /\ Done(p, "mark_attendance") /\ resp[p].code = 200
    /\ Done(q, "mark_attendance") /\ resp[q].code = 200
    /\ \E i \in 1..Len(processed[p]) : \E j \in 1..Len(processed[q]) :
         /\ ObjectId(processed[p][i].student_id) = ObjectId(processed[q][j].student_id)
         /\ ObjectId(processed[p][i].course_id) = ObjectId(processed[q][j].course_id)
         /\ processed[p][i].date = processed[q][j].date
    /\ Cardinality(attendance) = 1

\* C2: with requests handled one at a time, no two students share a
\* student_id or an email and no two courses share a course_code; and a
\* create (all required fields present) whose student_id or email, or whose
\* course_code, is that of a record existing when the request began
\* returns 409, whatever its other unique field.
C2_UniqueWhenOneAtATime ==
  /\ \A s1 \in students : \A s2 \in students :
       (s1.student_id = s2.student_id \/ s1.email = s2.email) => s1 = s2
  /\ \A c1 \in courses : \A c2 \in courses :
       c1.course_code = c2.course_code => c1 = c2
  /\ \A p \in Procs :
       /\ ( /\ Done(p, "add_student")
            /\ AllTruthy(req[p].data, StudentFields)
            /\ \E s \in snap[1] : \/ s.student_id = req[p].data.student_id
                                   \/ s.email = req[p].data.email )
          => resp[p].code = 409
       /\ ( /\ Done(p, "add_course")
            /\ AllTruthy(req[p].data, CourseFields)
            /\ \E c \in snap[2] : c.course_code = req[p].data.course_code )
          => resp[p].code = 409

\* A create was refused with 409 for its email alone: its student_id is
\* new, and the one document the store ever took in is the student an
\* earlier request created with that email.
C2_Witness ==
  \E p \in Procs :
    /\ Done(p, "add_student") /\ resp[p].code = 409
    /\ \A s \in students : s.student_id # req[p].data.student_id
    /\ \E s \in students : s.email = req[p].data.email
    /\ nextOid = 2

\* C3: the insert of POST /students is a store step of its own, taken
\* after the lookups and without looking again: it adds the document and
\* answers 201 whatever the collection holds by then, so two concurrent
\* requests with one student_id (or email) can both insert.
C3_InsertDoesNotLookAgain ==
  [][\A p \in Procs :
       (pc[p] = "as_insert" /\ pc'[p] # "as_insert")
         => /\ resp'[p].code = 201
            /\ Cardinality(students') = Cardinality(students) + 1
            /\ \E s \in students' \ students :
                 /\ s.student_id = req[p].data.student_id
                 /\ s.email = req[p].data.email]_vars

\* Two concurrent POST /students both returned 201 and the collection
\* holds two students with the same student_id.
C3_Witness ==
  \E p \in Procs : \E q \in Procs \ {p} :
    /\ Done(p, "add_student") /\ resp[p].code = 201
    /\ Done(q, "add_student") /\ resp[q].code = 201
    /\ req[p].data.student_id = req[q].data.student_id
    /\ \E s1 \in students : \E s2 \in students :
         /\ s1 # s2
         /\ s1.student_id = s2.student_id
         /\ {WithStrId(s1)} = resp[p].body
         /\ {WithStrId(s2)} = resp[q].body

\* C4: each successful mark of a triple leaves exactly one record for it,
\* carrying that mark's status and notes ("" when the entry has no notes),
\* and no other step touches a record: the record of a triple always shows
\* its most recent mark.
C4_LastMarkWins ==
  [][/\ \A p \in Procs :
         (pc[p] = "mk_upsert" /\ pc'[p] # "mk_upsert")
           => /\ Cardinality(Matching(attendance', RecKey(p))) = 1
              /\ \A r \in Matching(attendance', RecKey(p)) :
                   /\ r.status = Rec(p).status
                   /\ r.notes = IF Rec(p).notes = Absent THEN "" ELSE Rec(p).notes
     /\ \A r \in attendance :
         \/ r \in attendance'
         \/ \E p \in Procs : /\ pc[p] = "mk_upsert" /\ pc'[p] # "mk_upsert"
                              /\ RecKey(p) = KeyOf(r)]_vars

\* One triple was marked "present" with notes by one request and "absent"
\* without notes by another; its single record reads "absent", notes "".
C4_Witness ==
  \E p \in Procs : \E q \in Procs \ {p} :
    /\ Done(p, "mark_attendance") /\ resp[p].code = 200
    /\ Done(q, "mark_attendance") /\ resp[q].code = 200
    /\ Len(processed[p]) = 1 /\ Len(processed[q]) = 1
    /\ processed[p][1].student_id = processed[q][1].student_id
    /\ processed[p][1].course_id = processed[q][1].course_id
    /\ processed[p][1].date = processed[q][1].date
    /\ processed[p][1].status = "present" /\ processed[p][1].notes = "late"
    /\ processed[q][1].status = "absent" /\ req[q].data.records[1].notes = Absent
    /\ \E r \in attendance :
         attendance = {r} /\ r.status = "absent" /\ r.notes = ""

\* The triple that entry j of the request of thread p names.
EntryKey(p, j) ==
  Triple(ObjectId(req[p].data.records[j].student_id),
         ObjectId(req[p].data.course_id), strptime(req[p].data.date))

\* C5: a batch is processed in input order and is not atomic.  When the
\* loop of a POST /attendance has stopped at entry i with an error, the
\* entries before i, and only they, have been upserted, in order, and
\* their records are in the collection; the response is 400 for a missing
\* student_id or status or a malformed student_id and 404 otherwise.  A
\* 200 response means every entry was upserted.
C5_BatchStopsAtFirstFailure ==
  \A p \in Procs :
    (Done(p, "mark_attendance") /\ idx[p] >= 1) =>
      LET recs == req[p].data.records
          i == idx[p]
      IN  /\ Len(processed[p]) = i - 1
          /\ \A j \in 1..(i - 1) :
               /\ processed[p][j].student_id = recs[j].student_id
               /\ processed[p][j].status = recs[j].status
               /\ Matching(attendance, EntryKey(p, j)) # {}
          /\ resp[p].code = 200 <=> i = Len(recs) + 1
          /\ i <= Len(recs) =>
               resp[p].code =
                 IF recs[i].student_id = AbsentId \/ ~Truthy(recs[i].status)
                      \/ ~is_valid_objectId(recs[i].student_id)
                   THEN 400 ELSE 404

\* A two-entry batch whose second entry names no student returned 404
\* with its first entry committed.
C5_Witness ==
  \E p \in Procs :
    /\ Done(p, "mark_attendance")
    /\ resp[p].code = 404 /\ resp[p].error = "Student not found"
    /\ idx[p] = 2 /\ Len(req[p].data.records) = 2
    /\ Len(processed[p]) = 1
    /\ Matching(attendance, EntryKey(p, 1)) # {}
    /\ Matching(attendance, EntryKey(p, 2)) = {}

\* The last entry of records that names the same triple as entry i.
LastFor(data, i) ==
  CHOOSE j \in 1..Len(data.records) :
    /\ ObjectId(data.records[j].student_id) = ObjectId(data.records[i].student_id)
    /\ \A k \in (j + 1)..Len(data.records) :
         ObjectId(data.records[k].student_id) # ObjectId(data.records[i].student_id)

\* C6: marking is idempotent.  When a POST /attendance succeeds and the
\* successful POST /attendance before it carried the same body, with the
\* attendance collection unchanged in between, the second run leaves the
\* collection exactly as the first run left it, with one record per marked
\* triple whose status and notes are those of the input.
C6_MarkIdempotent ==
  [][\A p \in Procs :
       ( /\ Completes(p) /\ req[p].op = "mark_attendance" /\ resp'[p].code = 200
         /\ hist.valid /\ hist.data = req[p].data )
         => /\ attendance' = hist.att
            /\ \A i \in 1..Len(req[p].data.records) :
                 LET last == req[p].data.records[LastFor(req[p].data, i)]
                     found == Matching(attendance', EntryKey(p, i))
                 IN  /\ Cardinality(found) = 1
                     /\ \A r \in found : /\ r.status = last.status
                                          /\ r.notes = NotesOf(last)]_vars

\* A two-entry batch marking one student "present" and then "absent" has
\* been run twice in a row, successfully.
C6_Witness ==
  /\ hist.valid /\ hist.again
  /\ Len(hist.data.records) = 2
  /\ hist.data.records[1].student_id = hist.data.records[2].student_id
  /\ hist.data.records[1].status = "present"
  /\ hist.data.records[2].status = "absent"
  /\ attendance = hist.att
  /\ \E r \in attendance : attendance = {r} /\ r.status = "absent"

\* C7: no step removes or alters a student or a course; a 201 from
\* POST /students (POST /courses) means the document is in the collection;
\* and every GET /students (GET /courses) lists the whole collection.
C7_CreatedStaysListed ==
  [][/\ students \subseteq students'
     /\ courses \subseteq courses'
     /\ \A p \in Procs :
         /\ (Completes(p) /\ req[p].op = "add_student" /\ resp'[p].code = 201)
              => \E s \in students' : resp'[p].body = {WithStrId(s)}
         /\ (Completes(p) /\ req[p].op = "add_course" /\ resp'[p].code = 201)
              => \E c \in courses' : resp'[p].body = {WithStrId(c)}
         /\ (Completes(p) /\ req'[p].op = "get_students")
              => resp'[p].body = {WithStrId(s) : s \in students'}
         /\ (Completes(p) /\ req'[p].op = "get_courses")
              => resp'[p].body = {WithStrId(c) : c \in courses'}]_vars

\* A GET /students lists, beside the student that was there at startup,
\* the student another request created with 201.
C7_Witness ==
  \E p \in Procs : \E q \in Procs \ {p} :
    /\ Done(p, "get_students")
    /\ Done(q, "add_student") /\ resp[q].code = 201
    /\ resp[q].body \subseteq resp[p].body
    /\ Cardinality(resp[p].body) = 2

\* The request of thread p was answered before its first write.
RejectedBeforeWrite(p) ==
  /\ pc[p] = "done"
  /\ \/ req[p].op \in {"add_student", "add_course"} /\ resp[p].code \in {400, 409}
     \/ req[p].op = "mark_attendance" /\ resp[p].code = 400 /\ idx[p] = 0
     \/ req[p].op \in {"get_students", "get_courses", "get_all_attendance",
                        "get_attendance_by_course_and_date"}

\* C8: a request rejected before its first write, and every GET, leaves
\* the three collections as it found them.
C8_RejectedChangesNothing ==
  \A p \in Procs : RejectedBeforeWrite(p) => store = snap

\* A POST /courses was refused with 409 while the store held documents.
C8_Witness ==
  \E p \in Procs :
    /\ Done(p, "add_course") /\ resp[p].code = 409
    /\ store = snap
    /\ attendance # {}

\* C9: for a well-formed course id and a valid date D,
\* GET /attendance/<course_id>/<D> answers 200 with exactly the records of
\* that course whose date is midnight of D (every stored date is a
\* midnight), and with nothing when the id names no course.
C9_QueryExact ==
  /\ \A r \in attendance : r.date % HoursPerDay = 0
  /\ \A p \in Procs :
       ( /\ Done(p, "get_attendance_by_course_and_date")
         /\ is_valid_objectId(req[p].data.course_id)
         /\ strptime_ok(req[p].data.date_str) )
         => /\ resp[p].code = 200
            /\ resp[p].body =
                 {AttendanceOut(r) :
                    r \in {x \in attendance :
                             /\ x.course_id = req[p].data.course_id.n
                             /\ x.date \div HoursPerDay = req[p].data.date_str.day}}
            /\ req[p].data.course_id.n \notin CourseOids => resp[p].body = {}

\* A query returned the record of its day and left out the record the
\* same course holds for the day after.
C9_Witness ==
  \E p \in Procs :
    /\ Done(p, "get_attendance_by_course_and_date")
    /\ resp[p].code = 200 /\ resp[p].body # {}
    /\ req[p].data.date_str.day = 0
    /\ \E r \in attendance :
         /\ r.course_id = req[p].data.course_id.n
         /\ r.date = HoursPerDay
         /\ AttendanceOut(r) \notin resp[p].body

\* C10: every attendance record refers to a student in the students
\* collection and a course in the courses collection; a POST /attendance
\* stopped by "Course not found" has written nothing.
C10_ReferencesExist ==
  /\ \A r \in attendance :
       r.student_id \in StudentOids /\ r.course_id \in CourseOids
  /\ \A p \in Procs :
       (Done(p, "mark_attendance") /\ resp[p].error = "Course not found")
         => processed[p] = <<>> /\ Matching(attendance, EntryKey(p, 1)) = {}

\* A POST /attendance naming an existing student and a well-formed id of
\* no course was answered 404, while another request's record stands.
C10_Witness ==
  \E p \in Procs :
    /\ Done(p, "mark_attendance")
    /\ resp[p].code = 404 /\ resp[p].error = "Course not found"
    /\ ObjectId(req[p].data.records[1].student_id) \in StudentOids
    /\ attendance # {}

====
